---- MODULE Spec2Model ----
(***************************************************************************)
(* Model of the tmpo persistent store (internal/storage), its one-time UTC *)
(* timestamp migration, and the command orchestration built on top of it.  *)
(*                                                                         *)
(* A stored timestamp is the pair the driver writes and reads back: the    *)
(* wall-clock reading and the zone it was written with.  The instant it    *)
(* denotes is wall - Offset(zone).                                         *)
(***************************************************************************)
EXTENDS Integers, FiniteSets, Sequences, TLC

\* ---------------------------------------------------------------- bounds
MaxClock == 3
MaxEntries == 2
MaxMilestones == 1
MaxLegacyEntries == 2
MaxLegacyMilestones == 1
MaxCmdEntries == 3
MaxProjectMilestones == 3

\* Projects the registry holds at most.
MaxProjects == 3

\* ------------------------------------------------------------- vocabulary
\* sql.NullTime{Valid: false}, a nil *float64 and a nil *string.
NULL == [wall |-> 0, zone |-> "NULL"]
NoRate == -1
NoName == "<nil>"
Migration001_UTCTimestamps == "001_utc_timestamps"

Offset(z) == CASE z = "UTC" -> 0 [] z = "EST" -> -5 [] z = "CET" -> 1

Stamp(w, z) == [wall |-> w, zone |-> z]

\* The point in time a stored timestamp denotes.
Instant(t) == t.wall - Offset(t.zone)

\* time.Time.UTC(): same instant, zone set to UTC.
UTC(t) == Stamp(t.wall - Offset(t.zone), "UTC")

\* t.Location() != time.UTC
NotUTC(t) == t.zone # "UTC"

\* The first process launch happens at time FirstLaunch; rows written by
\* earlier versions of the program carry instants before it.
FirstLaunch == 2

Projects == {"P", "Q"}
MsNames == {"m", "n"}

\* --------------------------------------------------------------- state
VARIABLES
  time_entries,     \* table time_entries: id -> row
  milestones,       \* table milestones: id -> row
  settings,         \* table settings: key -> [value, updated_at]
  entrySeq,         \* AUTOINCREMENT high-water mark of time_entries
  milestoneSeq,     \* AUTOINCREMENT high-water mark of milestones
  opened,           \* a process holds a *Database returned by Initialize
  clock,            \* time.Now() of the host, as an instant
  registry,         \* ProjectsRegistry.Projects: the global projects, in order
  fsys,             \* what project detection finds on disk (see Dirs)
  procs,            \* the command invocations under way (see SpecRace)
  lastOp            \* outcome of the last operation (observation only)

vars == <<time_entries, milestones, settings, entrySeq, milestoneSeq, opened, clock,
          registry, fsys, procs, lastOp>>

\* The datastore and the process holding it; what lies outside it: the
\* configuration files and the invocations under way.
store == <<time_entries, milestones, settings, entrySeq, milestoneSeq, opened, clock>>

cfg == <<registry, fsys, procs>>

\* Outcome record of an operation.
Outcome(op, err) ==
  [op |-> op, err |-> err, ran |-> FALSE, queries |-> 0, rewritten |-> 0,
   reopened |-> FALSE]

\* time.Now(): the clock may or may not have advanced since the last reading.
Nows == {n \in {clock, clock + 1} : n <= MaxClock}

\* ------------------------------------------------------------ row helpers
Insert(tbl, id, row) == tbl @@ (id :> row)

Delete(tbl, id) == [i \in (DOMAIN tbl) \ {id} |-> tbl[i]]

Running(tbl) == {id \in DOMAIN tbl : tbl[id].end_time = NULL}


\* ------------------------------------------------------------- migration
\* Variant of hasMigrationRun that never reports a completed migration.
hasMigrationRun_never(s, migrationKey) == FALSE

hasMigrationRun(s, migrationKey) ==
  /\ migrationKey \in DOMAIN s
  /\ s[migrationKey].value = "completed"

\* Variant of needsUpdate that rewrites every row.
needsUpdate_always(row) == TRUE

\* needsUpdate of the scan loops.
needsUpdate(row) ==
  \/ NotUTC(row.start_time)
  \/ (row.end_time # NULL /\ NotUTC(row.end_time))

\* Variants of convertRow with a defect: the end time is left as stored; a
\* null end time is written as the zero time; the zone is relabelled without
\* shifting the wall-clock reading.
convertRow_startOnly(row) ==
  [row EXCEPT !.start_time = IF NotUTC(@) THEN UTC(@) ELSE @]

convertRow_coerceNull(row) ==
  [row EXCEPT
     !.start_time = IF NotUTC(@) THEN UTC(@) ELSE @,
     !.end_time   = IF @ = NULL THEN Stamp(0, "UTC") ELSE IF NotUTC(@) THEN UTC(@) ELSE @]

convertRow_relabel(row) ==
  [row EXCEPT
     !.start_time = IF NotUTC(@) THEN Stamp(@.wall, "UTC") ELSE @,
     !.end_time   = IF @ # NULL /\ NotUTC(@) THEN Stamp(@.wall, "UTC") ELSE @]

\* The row as the UPDATE of the apply loop writes it.
convertRow(row) ==
  [row EXCEPT
     !.start_time = IF NotUTC(@) THEN UTC(@) ELSE @,
     !.end_time   = IF @ # NULL /\ NotUTC(@) THEN UTC(@) ELSE @]

\* ids collected in `updates`, in scan (id) order.
updatesOf(tbl) == {id \in DOMAIN tbl : needsUpdate(tbl[id])}

\* The table inside the transaction after the first k updates were applied.
applyUpdates(tbl, k) ==
  LET done == {id \in updatesOf(tbl) :
                 Cardinality({j \in updatesOf(tbl) : j < id}) < k}
  IN [id \in DOMAIN tbl |-> IF id \in done THEN convertRow(tbl[id]) ELSE tbl[id]]

\* The table a transaction holds when the function returns after k UPDATEs
\* of its apply loop (all of them when no statement failed).
migrateTimeEntriesTableToUTC(tbl, k) == applyUpdates(tbl, k)

migrateMilestonesTableToUTC(tbl, k) == applyUpdates(tbl, k)

markComplete(s, now) ==
  [k \in (DOMAIN s) \cup {Migration001_UTCTimestamps} |->
     IF k = Migration001_UTCTimestamps
       THEN [value |-> "completed", updated_at |-> Stamp(now, "UTC")]
       ELSE s[k]]

\* The database file: the three tables a transaction reads and writes.
DB == [time_entries |-> time_entries, milestones |-> milestones, settings |-> settings]

\* Points at which the storage engine can report an error during Initialize.
FailPoints ==
  {"none", "schema", "check", "begin", "scan_entries", "update_entries",
   "scan_milestones", "update_milestones", "marker", "commit"}

\* A statement can only fail if it is executed: nothing after the ledger check
\* runs when the marker is there, and an UPDATE needs a row to rewrite; k is
\* the number of UPDATEs of the loop that succeeded before the failing one.
FailPossible(db, fail, k) ==
  /\ hasMigrationRun(db.settings, Migration001_UTCTimestamps) =>
       fail \in {"none", "schema", "check"}
  /\ CASE fail = "update_entries" -> k < Cardinality(updatesOf(db.time_entries))
       [] fail = "update_milestones" -> k < Cardinality(updatesOf(db.milestones))
       [] OTHER -> k = 0

\* tx.Commit(): the transaction's writes become the database.
Commit(db, tx) == tx

\* The deferred tx.Rollback(): the transaction's writes are discarded.
Rollback(db, tx) == db

MigResult(err, db, ran, queries, rewritten) ==
  [err |-> err, db |-> db, ran |-> ran, queries |-> queries, rewritten |-> rewritten]

\* Variant of writeMarker that writes the ledger row on the database handle
\* instead of the transaction.
writeMarker_outsideTx(db, tx, now) ==
  [db |-> [db EXCEPT !.settings = markComplete(@, now)],
   tx |-> [tx EXCEPT !.settings = markComplete(@, now)]]

\* The ledger write of the migration: tx.Exec on the open transaction.
writeMarker(db, tx, now) ==
  [db |-> db, tx |-> [tx EXCEPT !.settings = markComplete(@, now)]]

migrateTimestampsToUTC(db, fail, k, now) ==
  LET eN  == Cardinality(updatesOf(db.time_entries))
      mN  == Cardinality(updatesOf(db.milestones))
      eK  == IF fail = "update_entries" THEN k ELSE eN
      mK  == IF fail = "update_milestones" THEN k ELSE mN
      tx1 == [db EXCEPT !.time_entries = migrateTimeEntriesTableToUTC(@, eK)]
      tx2 == [tx1 EXCEPT !.milestones = migrateMilestonesTableToUTC(@, mK)]
      w   == writeMarker(db, tx2, now)
  IN
  IF fail = "check" THEN
    MigResult("failed to check migration status", db, FALSE, 0, 0)
  ELSE IF hasMigrationRun(db.settings, Migration001_UTCTimestamps) THEN
    MigResult("", db, FALSE, 0, 0)
  ELSE IF fail = "begin" THEN
    MigResult("failed to begin transaction", db, FALSE, 0, 0)
  ELSE IF fail = "scan_entries" THEN
    MigResult("failed to migrate time_entries", Rollback(db, db), TRUE, 1, 0)
  ELSE IF fail = "update_entries" THEN
    MigResult("failed to migrate time_entries", Rollback(db, tx1), TRUE, 1, eK)
  ELSE IF fail = "scan_milestones" THEN
    MigResult("failed to migrate milestones", Rollback(db, tx1), TRUE, 2, eN)
  ELSE IF fail = "update_milestones" THEN
    MigResult("failed to migrate milestones", Rollback(db, tx2), TRUE, 2, eN + mK)
  ELSE IF fail = "marker" THEN
    MigResult("failed to mark migration complete", Rollback(db, tx2), TRUE, 2, eN + mN)
  ELSE IF fail = "commit" THEN
    MigResult("failed to commit migration transaction", Rollback(w.db, w.tx), TRUE, 2, eN + mN)
  ELSE
    MigResult("", Commit(w.db, w.tx), TRUE, 2, eN + mN)

runMigrations(db, fail, k, now) == migrateTimestampsToUTC(db, fail, k, now)

\* What the two ALTER TABLE ... ADD COLUMN statements report, in order:
\* "duplicate column name" for a column the table has.  hourly_rate is in a
\* table the CREATE TABLE statement just made and in every store with the
\* ledger marker; milestone_name is in every store with the marker; a
\* store with rows and no marker is one of an earlier version, taken to
\* have neither.  fail = "schema" is any other complaint of the engine.
alterErrors(db, fail) ==
  LET done == hasMigrationRun(db.settings, Migration001_UTCTimestamps)
  IN IF fail = "schema" THEN <<"disk I/O error", "">>
     ELSE <<IF done \/ db.time_entries = <<>> THEN "duplicate column name: hourly_rate" ELSE "",
            IF done THEN "duplicate column name: milestone_name" ELSE "">>

\* Variant of isColumnExistsError that recognises no error text.
isColumnExistsError_never(errMsg) == FALSE

\* strings.Contains(errMsg, "duplicate column name") ||
\* strings.Contains(errMsg, "duplicate column"), on the texts of alterErrors.
isColumnExistsError(errMsg) ==
  errMsg \in {"duplicate column name: hourly_rate", "duplicate column name: milestone_name"}

\* storage.Initialize as a function of the database file: the schema
\* statements are IF NOT EXISTS / additive and touch no row.
InitializeResult(db, fail, k, now) ==
  LET errs == alterErrors(db, fail)
  IN IF errs[1] # "" /\ ~isColumnExistsError(errs[1])
       THEN MigResult("failed to add hourly_rate column", db, FALSE, 0, 0)
     ELSE IF errs[2] # "" /\ ~isColumnExistsError(errs[2])
       THEN MigResult("failed to add milestone_name column", db, FALSE, 0, 0)
     ELSE runMigrations(db, fail, k, now)

\* What the environment decides during one Initialize: where a statement
\* fails (if any) and the time.Now() the ledger row gets.
InitInputs(db) ==
  {in \in FailPoints \X (0 .. (MaxLegacyEntries - 1)) \X Nows :
     /\ FailPossible(db, in[1], in[2])
     /\ in[1] \in {"schema", "check", "begin"} => in[3] = clock
     /\ hasMigrationRun(db.settings, Migration001_UTCTimestamps) => in[3] = clock}

\* --------------------------------------------------------------- actions
Initialize ==
  /\ ~opened
  /\ UNCHANGED cfg
  /\ \E in \in InitInputs(DB) :
       /\ LET r == InitializeResult(DB, in[1], in[2], in[3]) IN
            /\ time_entries' = r.db.time_entries
            /\ milestones' = r.db.milestones
            /\ settings' = r.db.settings
            /\ opened' = (r.err = "")
            /\ clock' = in[3]
            /\ lastOp' = [Outcome("Initialize", r.err) EXCEPT
                            !.ran = r.ran, !.queries = r.queries,
                            !.rewritten = r.rewritten]
                          @@ [fault |-> in[1]]
       /\ UNCHANGED <<entrySeq, milestoneSeq>>

Close ==
  /\ opened
  /\ UNCHANGED cfg
  /\ opened' = FALSE
  /\ lastOp' = Outcome("Close", "")
  /\ UNCHANGED <<time_entries, milestones, settings, entrySeq, milestoneSeq, clock>>

\* ------------------------------------------------------------ store: entries
EntryRow(projectName, startTime, endTime, description, hourlyRate, milestoneName) ==
  [project_name |-> projectName, start_time |-> startTime, end_time |-> endTime,
   description |-> description, hourly_rate |-> hourlyRate, milestone_name |-> milestoneName]

\* (project, description, hourly rate, milestone name) a caller passes.
EntryArgs == {<<"P", "", NoRate, NoName>>, <<"Q", "d", 50, "m">>}

\* (start, end) a caller passes: times in any zone, end nil where allowed.
ManualTimes == {<<Stamp(-4, "EST"), Stamp(4, "CET")>>, <<Stamp(1, "UTC"), Stamp(1, "UTC")>>}

UpdateTimes == ManualTimes \cup {<<Stamp(-4, "EST"), NULL>>}

\* The *TimeEntry values a caller can pass to UpdateTimeEntry.
EntryInputs ==
  {EntryRow(a[1], t[1], t[2], a[2], a[3], a[4]) : a \in EntryArgs, t \in UpdateTimes}

\* The INSERT of CreateEntry on a table: start = time.Now().UTC(), no end.
insertEntry(tbl, id, projectName, description, hourlyRate, milestoneName, now) ==
  Insert(tbl, id, EntryRow(projectName, Stamp(now, "UTC"), NULL,
                           description, hourlyRate, milestoneName))

\* Variant of nextId for a rowid without AUTOINCREMENT: one more than the
\* largest id in the table.
nextId_rowid(tbl, seq) ==
  IF DOMAIN tbl = {} THEN 1 ELSE 1 + CHOOSE i \in DOMAIN tbl : \A j \in DOMAIN tbl : j <= i

\* id INTEGER PRIMARY KEY AUTOINCREMENT: one more than the largest id the
\* table has ever held, which sqlite_sequence keeps.
nextId(tbl, seq) == seq + 1

CreateEntry ==
  /\ opened
  /\ UNCHANGED cfg
  /\ entrySeq < MaxEntries
  /\ \E a \in EntryArgs, now \in Nows :
       /\ time_entries' = insertEntry(time_entries, nextId(time_entries, entrySeq),
                                       a[1], a[2], a[3], a[4], now)
       /\ entrySeq' = entrySeq + 1
       /\ clock' = now
       /\ lastOp' = Outcome("CreateEntry", "")
  /\ UNCHANGED <<milestones, settings, milestoneSeq, opened>>

CreateManualEntry ==
  /\ opened
  /\ UNCHANGED cfg
  /\ entrySeq < MaxEntries
  /\ \E a \in EntryArgs, t \in ManualTimes :
       /\ time_entries' = Insert(time_entries, nextId(time_entries, entrySeq),
                                 EntryRow(a[1], UTC(t[1]), UTC(t[2]), a[2], a[3], a[4]))
       /\ entrySeq' = entrySeq + 1
       /\ lastOp' = Outcome("CreateManualEntry", "")
  /\ UNCHANGED <<milestones, settings, milestoneSeq, opened, clock>>

\* Variant of stopEntry that clears the end time of a row that has one.
stopEntry_toggle(tbl, id, now) ==
  [i \in DOMAIN tbl |->
     IF i = id
       THEN [tbl[i] EXCEPT !.end_time = IF @ = NULL THEN Stamp(now, "UTC") ELSE NULL]
       ELSE tbl[i]]

\* Variant of stopEntry with "AND end_time IS NULL" in the statement.
stopEntry_onlyRunning(tbl, id, now) ==
  [i \in DOMAIN tbl |->
     IF i = id /\ tbl[i].end_time = NULL
       THEN [tbl[i] EXCEPT !.end_time = Stamp(now, "UTC")]
       ELSE tbl[i]]

\* UPDATE ... SET end_time = now WHERE id = ?
stopEntry(tbl, id, now) ==
  [i \in DOMAIN tbl |-> IF i = id THEN [tbl[i] EXCEPT !.end_time = Stamp(now, "UTC")] ELSE tbl[i]]

\* ids a caller may pass: every id ever assigned and one never assigned.
EntryIds == 1 .. (MaxEntries + 1)

StopEntry ==
  /\ opened
  /\ UNCHANGED cfg
  /\ \E id \in EntryIds, now \in Nows :
       /\ time_entries' = stopEntry(time_entries, id, now)
       /\ clock' = now
       /\ lastOp' = Outcome("StopEntry", "")
                      @@ [id |-> id,
                          before |-> IF id \notin DOMAIN time_entries THEN "absent"
                                     ELSE IF time_entries[id].end_time = NULL THEN "running"
                                     ELSE "stopped"]
  /\ UNCHANGED <<milestones, settings, entrySeq, milestoneSeq, opened>>

\* Variant of updatedRow that writes the times as given.
updatedRow_asGiven(entry) == entry

\* The row UpdateTimeEntry writes for the *TimeEntry it is given.
updatedRow(entry) ==
  [entry EXCEPT
     !.start_time = UTC(@),
     !.end_time   = IF @ # NULL THEN UTC(@) ELSE NULL]

UpdateTimeEntry ==
  /\ opened
  /\ UNCHANGED cfg
  /\ \E id \in EntryIds, entry \in EntryInputs :
       /\ time_entries' =
            [i \in DOMAIN time_entries |-> IF i = id THEN updatedRow(entry) ELSE time_entries[i]]
       /\ lastOp' = [Outcome("UpdateTimeEntry", "") EXCEPT
                       !.reopened = /\ id \in DOMAIN time_entries
                                    /\ time_entries[id].end_time # NULL
                                    /\ updatedRow(entry).end_time = NULL]
  /\ UNCHANGED <<milestones, settings, entrySeq, milestoneSeq, opened, clock>>

DeleteTimeEntry ==
  /\ opened
  /\ UNCHANGED cfg
  /\ \E id \in EntryIds :
       /\ time_entries' = Delete(time_entries, id)
       /\ lastOp' = Outcome("DeleteTimeEntry", "")
  /\ UNCHANGED <<milestones, settings, entrySeq, milestoneSeq, opened, clock>>

\* --------------------------------------------------------- store: milestones
MilestoneRow(projectName, name, startTime, endTime) ==
  [project_name |-> projectName, name |-> name, start_time |-> startTime, end_time |-> endTime]

\* The ids a caller may pass: those handed out so far and one never used.
MilestoneIds == 1 .. (milestoneSeq + 1)

\* Variant of uniqueViolation for a table without the UNIQUE constraint.
uniqueViolation_never(tbl, projectName, name) == FALSE

\* UNIQUE(project_name, name)
uniqueViolation(tbl, projectName, name) ==
  \E i \in DOMAIN tbl : tbl[i].project_name = projectName /\ tbl[i].name = name

\* CreateMilestone while fewer than `cap` ids have been handed out.
CreateMilestoneUpTo(cap) ==
  /\ opened
  /\ UNCHANGED cfg
  /\ milestoneSeq < cap
  /\ \E p \in Projects, n \in MsNames, now \in Nows :
       IF uniqueViolation(milestones, p, n)
         THEN /\ lastOp' = Outcome("CreateMilestone", "failed to create milestone")
              /\ UNCHANGED <<milestones, milestoneSeq, clock>>
         ELSE /\ milestones' = Insert(milestones, milestoneSeq + 1,
                                      MilestoneRow(p, n, Stamp(now, "UTC"), NULL))
              /\ milestoneSeq' = milestoneSeq + 1
              /\ clock' = now
              /\ lastOp' = Outcome("CreateMilestone", "")
  /\ UNCHANGED <<time_entries, settings, entrySeq, opened>>

CreateMilestone == CreateMilestoneUpTo(MaxMilestones)

FinishMilestone ==
  /\ opened
  /\ UNCHANGED cfg
  /\ \E id \in MilestoneIds, now \in Nows :
       /\ milestones' = stopEntry(milestones, id, now)
       /\ clock' = now
       /\ lastOp' = Outcome("FinishMilestone", "") @@ [id |-> id]
  /\ UNCHANGED <<time_entries, settings, entrySeq, milestoneSeq, opened>>

\* ------------------------------------------------------------ initial states
\* The processes that may run a command at the same time, none under way.
Procs == {1, 2}

NoProcs ==
  [overlapped |-> FALSE,
   run |-> [p \in Procs |-> [pc |-> "idle", last |-> <<>>, name |-> ""]]]

\* No TMPO_DEV in the environment and no projects.yaml in either directory.
NoFile == [exists |-> FALSE, malformed |-> FALSE, doc |-> <<>>]

TmpoDirs == {".tmpo", ".tmpo-dev"}

\* A working directory with no .tmporc above it, outside any git repository.
NoFiles ==
  [registryErr |-> FALSE, found |-> FALSE, loadErr |-> FALSE, tmporcDir |-> "",
   cfgName |-> "", cfgRate |-> 0, cfgExport |-> "", git |-> "", cwd |-> "Q",
   TMPO_DEV |-> "", projectsYaml |-> [d \in TmpoDirs |-> NoFile]]

\* Rows written by the versions of the program that stored time.Now() in the
\* host's zone of the day, and rows those versions wrote on a UTC host.
LegacyZones == {"UTC", "EST"}

LegacyStarts == {Stamp(0 + Offset(z), z) : z \in LegacyZones}

LegacyEnds == {NULL} \cup {Stamp(1 + Offset(z), z) : z \in LegacyZones}

LegacyEntryRows ==
  {EntryRow("P", st, en, "d", NoRate, NoName) : st \in LegacyStarts, en \in LegacyEnds}

LegacyMilestoneRows ==
  {MilestoneRow("P", "m", st, en) : st \in LegacyStarts, en \in LegacyEnds}

\* Tables with rows 1..n.
Tables(rows, maxRows) == UNION {[1 .. n -> rows] : n \in 0 .. maxRows}

InitWith(entryTables, milestoneTables) ==
  /\ time_entries \in entryTables
  /\ milestones \in milestoneTables
  /\ settings = <<>>
  /\ entrySeq = Len(time_entries)
  /\ milestoneSeq = Len(milestones)
  /\ opened = FALSE
  /\ clock = FirstLaunch
  /\ registry = <<>>
  /\ fsys = NoFiles
  /\ procs = NoProcs
  /\ lastOp = Outcome("none", "")

\* A datastore left by an earlier version: any legacy rows, no ledger marker.
InitMig ==
  InitWith(Tables(LegacyEntryRows, MaxLegacyEntries),
           Tables(LegacyMilestoneRows, MaxLegacyMilestones))

NextMig == Initialize \/ Close

SpecMig == InitMig /\ [][NextMig]_vars

\* A fresh install, or a datastore holding one row of an earlier version in
\* either table.
Init ==
  InitWith({<<>>, <<EntryRow("P", Stamp(-5, "EST"), NULL, "d", NoRate, NoName)>>,
                  <<EntryRow("P", Stamp(-5, "EST"), Stamp(-4, "EST"), "d", NoRate, NoName)>>},
           {<<>>, <<MilestoneRow("P", "m", Stamp(-5, "EST"), NULL)>>})

Next ==
  \/ Initialize
  \/ Close
  \/ CreateEntry
  \/ CreateManualEntry
  \/ StopEntry
  \/ UpdateTimeEntry
  \/ DeleteTimeEntry
  \/ CreateMilestone
  \/ FinishMilestone

Spec == Init /\ [][Next]_vars

\* ------------------------------------------------------------ store: lookups
\* ORDER BY start_time compares the stored text: the wall-clock reading first,
\* then the zone suffix ("+0000 UTC" < "+0100 CET" < "-0500 EST").
ZoneRank(z) == CASE z = "UTC" -> 0 [] z = "CET" -> 1 [] z = "EST" -> 2

TextLess(a, b) == a.wall < b.wall \/ (a.wall = b.wall /\ ZoneRank(a.zone) < ZoneRank(b.zone))

\* Variant of firstByStartDesc for ORDER BY start_time ASC.
firstByStartDesc_asc(tbl, among) ==
  {id \in among : \A j \in among : ~TextLess(tbl[j].start_time, tbl[id].start_time)}

\* ... ORDER BY start_time DESC LIMIT 1 over the rows `among`: the ids the
\* statement can return (more than one only when start times tie).
firstByStartDesc(tbl, among) ==
  {id \in among : \A j \in among : ~TextLess(tbl[id].start_time, tbl[j].start_time)}

GetRunningEntry(tbl) == firstByStartDesc(tbl, Running(tbl))

GetLastStoppedEntry(tbl) ==
  firstByStartDesc(tbl, {id \in DOMAIN tbl : tbl[id].end_time # NULL})

GetLastStoppedEntryByProject(tbl, projectName) ==
  firstByStartDesc(tbl, {id \in DOMAIN tbl :
                           tbl[id].end_time # NULL /\ tbl[id].project_name = projectName})

\* Variant of GetActiveMilestoneForProject without "AND end_time IS NULL".
GetActiveMilestoneForProject_anyState(tbl, projectName) ==
  firstByStartDesc(tbl, {id \in DOMAIN tbl : tbl[id].project_name = projectName})

GetActiveMilestoneForProject(tbl, projectName) ==
  firstByStartDesc(tbl, {id \in DOMAIN tbl :
                           tbl[id].end_time = NULL /\ tbl[id].project_name = projectName})

\* SELECT ... FROM time_entries WHERE id = ?
GetEntry(tbl, id) == {i \in DOMAIN tbl : i = id}

\* SELECT ... FROM milestones WHERE id = ?
GetMilestone(tbl, id) == {i \in DOMAIN tbl : i = id}

\* SELECT ... FROM milestones WHERE project_name = ? AND name = ?
GetMilestoneByName(tbl, projectName, milestoneName) ==
  {i \in DOMAIN tbl : tbl[i].project_name = projectName /\ tbl[i].name = milestoneName}

\* SELECT ... FROM milestones WHERE project_name = ? (every row is listed)
GetMilestonesByProject(tbl, projectName) ==
  {i \in DOMAIN tbl : tbl[i].project_name = projectName}

\* QueryRow(...).Scan(...) and the error handling after it.  `rows` are the
\* ids the statement can return; with none Scan gives sql.ErrNoRows, which
\* the function turns into (nil, nil) when it tests for it (absentOnNoRows)
\* and wraps into `failure` when it does not.  id 0 stands for a nil result.
singleRow(rows, absentOnNoRows, failure) ==
  IF rows # {} THEN {[err |-> "", id |-> i] : i \in rows}
  ELSE {[err |-> IF absentOnNoRows THEN "" ELSE failure, id |-> 0]}

\* Outcome of a lookup; matched records whether any row matched.
Looked(op, res, rows) ==
  Outcome(op, res.err) @@ [id |-> res.id, matched |-> rows # {}, project |-> ""]

QueryRunningEntry ==
  /\ opened
  /\ \E res \in singleRow(GetRunningEntry(time_entries), TRUE, "failed to get running entry") :
       lastOp' = Looked("GetRunningEntry", res, GetRunningEntry(time_entries))
  /\ UNCHANGED <<store, cfg>>

QueryLastStoppedEntry ==
  /\ opened
  /\ \E res \in singleRow(GetLastStoppedEntry(time_entries), TRUE,
                          "failed to get last stopped entry") :
       lastOp' = Looked("GetLastStoppedEntry", res, GetLastStoppedEntry(time_entries))
  /\ UNCHANGED <<store, cfg>>

QueryEntry ==
  /\ opened
  /\ \E id \in EntryIds :
       \E res \in singleRow(GetEntry(time_entries, id), FALSE, "failed to get entry") :
         lastOp' = Looked("GetEntry", res, GetEntry(time_entries, id))
  /\ UNCHANGED <<store, cfg>>

QueryMilestone ==
  /\ opened
  /\ \E id \in MilestoneIds :
       \E res \in singleRow(GetMilestone(milestones, id), TRUE, "failed to get milestone") :
         lastOp' = Looked("GetMilestone", res, GetMilestone(milestones, id))
  /\ UNCHANGED <<store, cfg>>

QueryActiveMilestoneForProject ==
  /\ opened
  /\ \E p \in Projects :
       \E res \in singleRow(GetActiveMilestoneForProject(milestones, p), TRUE,
                            "failed to get active milestone") :
         lastOp' = [Looked("GetActiveMilestoneForProject", res,
                           GetActiveMilestoneForProject(milestones, p))
                      EXCEPT !.project = p]
  /\ UNCHANGED <<store, cfg>>

QueryMilestoneByName ==
  /\ opened
  /\ \E p \in Projects, n \in MsNames :
       \E res \in singleRow(GetMilestoneByName(milestones, p, n), TRUE,
                            "failed to get milestone by name") :
         lastOp' = Looked("GetMilestoneByName", res, GetMilestoneByName(milestones, p, n))
  /\ UNCHANGED <<store, cfg>>

\* The milestone operations of the store on their own, with room for
\* several milestones per project.
NextMs ==
  \/ Initialize
  \/ Close
  \/ CreateMilestoneUpTo(MaxProjectMilestones)
  \/ FinishMilestone
  \/ QueryActiveMilestoneForProject

SpecMs == Init /\ [][NextMs]_vars

\* The store with its single-row lookups.
NextQuery ==
  \/ Initialize
  \/ Close
  \/ CreateEntry
  \/ CreateManualEntry
  \/ StopEntry
  \/ DeleteTimeEntry
  \/ CreateMilestone
  \/ FinishMilestone
  \/ QueryRunningEntry
  \/ QueryLastStoppedEntry
  \/ QueryEntry
  \/ QueryMilestone
  \/ QueryActiveMilestoneForProject
  \/ QueryMilestoneByName

SpecQuery == Init /\ [][NextQuery]_vars

\* ---------------------------------------------------------- project detection
\* strings.ToLower / strings.TrimSpace on the names the model uses.
ToLower(n) == CASE n = "P" -> "p" [] n = " P" -> " p" [] n = "Q" -> "q" [] OTHER -> n

TrimSpace(n) == CASE n = " P" -> "P" [] n = " p" -> "p" [] n = " " -> "" [] OTHER -> n

EqualFold(a, b) == ToLower(a) = ToLower(b)

\* GlobalProject{Name, HourlyRate, ExportPath}
GlobalProject(name, hourlyRate, exportPath) ==
  [name |-> name, hourly_rate |-> hourlyRate, description |-> "", export_path |-> exportPath]

\* ProjectsRegistry.GetProject: the first project whose name equals the
\* trimmed name case-insensitively (index 0: none).
GetProject(projects, name) ==
  LET normalizedName == TrimSpace(name)
      hits == {i \in 1 .. Len(projects) : EqualFold(projects[i].name, normalizedName)}
  IN IF normalizedName = "" THEN [err |-> "project name cannot be empty", index |-> 0]
     ELSE IF hits # {}
       THEN [err |-> "", index |-> CHOOSE i \in hits : \A j \in hits : i <= j]
       ELSE [err |-> "not found in global registry", index |-> 0]

\* ProjectsRegistry.Exists
Exists(projects, name) == GetProject(projects, name).err = ""

\* What project detection reads: the files of `files` (whether projects.yaml
\* fails to load; the nearest .tmporc: found or not, whether it fails to
\* load, its directory's base name, its declared project name, hourly rate
\* and export path; the git root's base name, "" outside a repository; the
\* working directory's base name) and the projects of the global registry.
Env(files, projects) == [registry |-> projects] @@ files

\* settings.FindAndLoad: the nearest .tmporc above the working directory,
\* parsed; a nil config and no error when there is none.
FindAndLoad(env) ==
  [err |-> IF env.found /\ env.loadErr THEN "failed to parse config" ELSE "",
   cfg |-> [nil |-> ~(env.found /\ ~env.loadErr),
            ProjectName |-> env.cfgName,
            HourlyRate |-> env.cfgRate,
            ExportPath |-> env.cfgExport]]

\* cfg, _, err := settings.FindAndLoad(); err == nil && cfg != nil
HasConfig(env) == FindAndLoad(env).err = "" /\ ~FindAndLoad(env).cfg.nil

Config(env) == FindAndLoad(env).cfg

\* The working directories the commands are run in.
Envs ==
  {Env([NoFiles EXCEPT !.found = f, !.tmporcDir = "P", !.cfgName = c],
       <<GlobalProject("P", NoRate, "")>>) :
     f \in BOOLEAN, c \in {"", "Q"}}

\* Variant of DetectProject that ignores the .tmporc.
DetectProject_gitFirst(env) ==
  IF env.git # "" THEN env.git ELSE env.cwd

DetectProject(env) ==
  IF env.found THEN env.tmporcDir
  ELSE IF env.git # "" THEN env.git
  ELSE env.cwd

\* Variant of DetectConfiguredProjectWithOverride that falls back to
\* detection when the explicit project is not registered.
DetectConfiguredProjectWithOverride_fallback(explicitProject, env) ==
  IF explicitProject # "" /\ ~env.registryErr /\ Exists(env.registry, explicitProject)
    THEN [err |-> "", name |-> explicitProject]
  ELSE IF HasConfig(env) /\ Config(env).ProjectName # ""
    THEN [err |-> "", name |-> Config(env).ProjectName]
  ELSE [err |-> "", name |-> DetectProject(env)]

\* Variant of DetectConfiguredProjectWithOverride that returns the name as
\* the registry spells it.
DetectConfiguredProjectWithOverride_canonical(explicitProject, env) ==
  IF explicitProject # "" THEN
    IF env.registryErr
      THEN [err |-> "failed to load projects registry", name |-> ""]
    ELSE IF ~Exists(env.registry, explicitProject)
      THEN [err |-> "not found in global registry", name |-> ""]
      ELSE [err |-> "",
            name |-> env.registry[GetProject(env.registry, explicitProject).index].name]
  ELSE IF HasConfig(env) /\ Config(env).ProjectName # ""
    THEN [err |-> "", name |-> Config(env).ProjectName]
  ELSE [err |-> "", name |-> DetectProject(env)]

DetectConfiguredProjectWithOverride(explicitProject, env) ==
  IF explicitProject # "" THEN
    IF env.registryErr
      THEN [err |-> "failed to load projects registry", name |-> ""]
    ELSE IF ~Exists(env.registry, explicitProject)
      THEN [err |-> "not found in global registry", name |-> ""]
      ELSE [err |-> "", name |-> explicitProject]
  ELSE IF HasConfig(env) /\ Config(env).ProjectName # ""
    THEN [err |-> "", name |-> Config(env).ProjectName]
  ELSE [err |-> "", name |-> DetectProject(env)]

\* Variant of GetProjectConfig that asks the .tmporc first.
GetProjectConfig_localFirst(projectName, env) ==
  IF HasConfig(env) /\ Config(env).ProjectName = projectName
    THEN [err |-> "", rate |-> IF Config(env).HourlyRate > 0 THEN Config(env).HourlyRate ELSE NoRate,
          exportPath |-> Config(env).ExportPath]
  ELSE IF ~env.registryErr /\ Exists(env.registry, projectName)
    THEN LET project == env.registry[GetProject(env.registry, projectName).index]
         IN [err |-> "", rate |-> project.hourly_rate, exportPath |-> project.export_path]
  ELSE [err |-> "", rate |-> NoRate, exportPath |-> ""]

\* Variant of GetProjectConfig that returns the .tmporc rate as it is.
GetProjectConfig_anyRate(projectName, env) ==
  IF ~env.registryErr /\ Exists(env.registry, projectName)
    THEN LET project == env.registry[GetProject(env.registry, projectName).index]
         IN [err |-> "", rate |-> project.hourly_rate, exportPath |-> project.export_path]
  ELSE IF HasConfig(env) /\ Config(env).ProjectName = projectName
    THEN [err |-> "", rate |-> Config(env).HourlyRate, exportPath |-> Config(env).ExportPath]
  ELSE [err |-> "", rate |-> NoRate, exportPath |-> ""]

GetProjectConfig(projectName, env) ==
  IF ~env.registryErr /\ Exists(env.registry, projectName)
    THEN LET project == env.registry[GetProject(env.registry, projectName).index]
         IN [err |-> "", rate |-> project.hourly_rate, exportPath |-> project.export_path]
  ELSE IF HasConfig(env) /\ Config(env).ProjectName = projectName
    THEN [err |-> "", rate |-> IF Config(env).HourlyRate > 0 THEN Config(env).HourlyRate ELSE NoRate,
          exportPath |-> Config(env).ExportPath]
  ELSE [err |-> "", rate |-> NoRate, exportPath |-> ""]

\* ----------------------------------------------- project detection: calls
\* The working directories detection is tried in: with or without a .tmporc
\* above them (one that fails to parse, or one that declares a project name
\* or none, an hourly rate and an export path), inside or outside a git
\* repository, with a projects.yaml that loads or fails to.
Dirs ==
  LET base == {[NoFiles EXCEPT !.registryErr = re, !.git = g, !.cwd = "W"] :
                 re \in BOOLEAN, g \in {"", "G"}}
  IN base
     \cup {[d EXCEPT !.found = TRUE, !.tmporcDir = "D", !.loadErr = TRUE] : d \in base}
     \cup {[d EXCEPT !.found = TRUE, !.tmporcDir = "D",
                     !.cfgName = c, !.cfgRate = r, !.cfgExport = x] :
             d \in base, c \in {"", "P", "Q"}, r \in {-5, 0, 50}, x \in {"", "/local"}}

\* Registries detection is tried against.
DetectRegistries ==
  {<<>>,
   <<GlobalProject("P", 80, "/global")>>,
   <<GlobalProject("Q", NoRate, ""), GlobalProject("P", 80, "/global")>>}

\* Values passed as the explicit project / as the project name.
ExplicitProjects == {"", "P", "p", " P", "Q", " "}

ProjectNames == {"", "P", "p", " P", "Q"}

\* No datastore is involved in project detection and registry operations.
InitCfg(registries, dirs) ==
  /\ time_entries = <<>>
  /\ milestones = <<>>
  /\ settings = <<>>
  /\ entrySeq = 0
  /\ milestoneSeq = 0
  /\ opened = FALSE
  /\ clock = FirstLaunch
  /\ registry \in registries
  /\ fsys \in dirs
  /\ procs = NoProcs
  /\ lastOp = Outcome("none", "")

\* A call of DetectConfiguredProjectWithOverride(explicitProject).
CallDetectConfiguredProject ==
  /\ \E explicitProject \in ExplicitProjects :
       LET res == DetectConfiguredProjectWithOverride(explicitProject, Env(fsys, registry))
       IN lastOp' = Outcome("DetectConfiguredProjectWithOverride", res.err)
                      @@ [arg |-> explicitProject, name |-> res.name]
  /\ UNCHANGED <<store, cfg>>

\* A call of GetProjectConfig(projectName).
CallGetProjectConfig ==
  /\ \E projectName \in ProjectNames :
       LET res == GetProjectConfig(projectName, Env(fsys, registry))
       IN lastOp' = Outcome("GetProjectConfig", res.err)
                      @@ [arg |-> projectName, rate |-> res.rate, exportPath |-> res.exportPath]
  /\ UNCHANGED <<store, cfg>>

InitDetect == InitCfg(DetectRegistries, Dirs)

NextDetect == CallDetectConfiguredProject \/ CallGetProjectConfig

SpecDetect == InitDetect /\ [][NextDetect]_vars

\* ------------------------------------------------- projects registry: calls
\* Variant of AddProject that appends before it looks for the name.
addProject_appendAnyway(projects, project) ==
  LET normalizedName == TrimSpace(project.name)
      added == Append(projects, [project EXCEPT !.name = normalizedName])
  IN IF normalizedName = "" THEN [err |-> "project name cannot be empty", projects |-> projects]
     ELSE IF GetProject(projects, normalizedName).err = ""
       THEN [err |-> "already exists", projects |-> added]
       ELSE [err |-> "", projects |-> added]

\* ProjectsRegistry.AddProject
addProject(projects, project) ==
  LET normalizedName == TrimSpace(project.name)
  IN IF normalizedName = "" THEN [err |-> "project name cannot be empty", projects |-> projects]
     ELSE IF GetProject(projects, normalizedName).err = ""
       THEN [err |-> "already exists", projects |-> projects]
       ELSE [err |-> "",
             projects |-> Append(projects, [project EXCEPT !.name = normalizedName])]

\* The first project whose name equals the name case-insensitively (0: none).
firstMatch(projects, normalizedName) ==
  LET hits == {i \in 1 .. Len(projects) : EqualFold(projects[i].name, normalizedName)}
  IN IF hits = {} THEN 0 ELSE CHOOSE i \in hits : \A j \in hits : i <= j

\* Variant of UpdateProject that stores updatedProject as given.
updateProject_asGiven(projects, name, updatedProject) ==
  LET normalizedName == TrimSpace(name)
      i == firstMatch(projects, normalizedName)
  IN IF normalizedName = "" THEN [err |-> "project name cannot be empty", projects |-> projects]
     ELSE IF i # 0 THEN [err |-> "", projects |-> [projects EXCEPT ![i] = updatedProject]]
     ELSE [err |-> "not found", projects |-> projects]

\* ProjectsRegistry.UpdateProject: the matching project is replaced by
\* updatedProject, which keeps the original name only when its own is "".
updateProject(projects, name, updatedProject) ==
  LET normalizedName == TrimSpace(name)
      i == firstMatch(projects, normalizedName)
  IN IF normalizedName = "" THEN [err |-> "project name cannot be empty", projects |-> projects]
     ELSE IF i # 0
       THEN [err |-> "",
             projects |-> [projects EXCEPT ![i] =
                             IF updatedProject.name = ""
                               THEN [updatedProject EXCEPT !.name = projects[i].name]
                               ELSE updatedProject]]
       ELSE [err |-> "not found", projects |-> projects]

\* ProjectsRegistry.DeleteProject
deleteProject(projects, name) ==
  LET normalizedName == TrimSpace(name)
      i == firstMatch(projects, normalizedName)
  IN IF normalizedName = "" THEN [err |-> "project name cannot be empty", projects |-> projects]
     ELSE IF i # 0
       THEN [err |-> "",
             projects |-> SubSeq(projects, 1, i - 1) \o SubSeq(projects, i + 1, Len(projects))]
       ELSE [err |-> "not found", projects |-> projects]

\* Names given to the registry's methods and names of the projects given.
RegistryNames == {"", " ", "P", "p", " P", "Q"}

GivenProjects == {GlobalProject(n, r, "") : n \in {"", "P", "p", " P", "Q"}, r \in {NoRate, 80}}

AddProject ==
  \E project \in GivenProjects :
    LET res == addProject(registry, project)
    IN /\ Len(res.projects) <= MaxProjects
       /\ registry' = res.projects
       /\ lastOp' = Outcome("AddProject", res.err) @@ [arg |-> project.name]
       /\ UNCHANGED <<store, fsys, procs>>

UpdateProject ==
  \E name \in RegistryNames, updatedProject \in GivenProjects :
    LET res == updateProject(registry, name, updatedProject)
    IN /\ registry' = res.projects
       /\ lastOp' = Outcome("UpdateProject", res.err) @@ [arg |-> name, given |-> updatedProject]
       /\ UNCHANGED <<store, fsys, procs>>

DeleteProject ==
  \E name \in RegistryNames :
    LET res == deleteProject(registry, name)
    IN /\ registry' = res.projects
       /\ lastOp' = Outcome("DeleteProject", res.err) @@ [arg |-> name]
       /\ UNCHANGED <<store, fsys, procs>>

InitReg == InitCfg(DetectRegistries, {NoFiles})

NextReg == AddProject \/ UpdateProject \/ DeleteProject

SpecReg == InitReg /\ [][NextReg]_vars

\* ------------------------------------------------------ persisted files
\* tmpoDir of Initialize: the directory of the datastore.
dbPath(devMode) ==
  [dir |-> IF devMode = "1" \/ devMode = "true" THEN ".tmpo-dev" ELSE ".tmpo",
   file |-> "tmpo.db"]

GetProjectsPath(devMode) ==
  [dir |-> IF devMode = "1" \/ devMode = "true" THEN ".tmpo-dev" ELSE ".tmpo",
   file |-> "projects.yaml"]

GetGlobalConfigPath(devMode) == [dir |-> ".tmpo", file |-> "config.yaml"]

\* One mapping of the projects list as yaml.Marshal writes it: the name
\* always, the omitempty keys only when not empty (a nil *float64, "").
marshalProject(p) ==
  [name |-> p.name,
   keys |-> {k \in {"hourly_rate"} : p.hourly_rate # NoRate}
              \cup {k \in {"description"} : p.description # ""}
              \cup {k \in {"export_path"} : p.export_path # ""},
   hourly_rate |-> IF p.hourly_rate # NoRate THEN p.hourly_rate ELSE 0,
   description |-> p.description,
   export_path |-> p.export_path]

\* Variant of Marshal that leaves out a zero hourly rate as well.
Marshal_omitZeroRate(projects) ==
  [i \in 1 .. Len(projects) |->
     [marshalProject(projects[i]) EXCEPT
        !.keys = IF projects[i].hourly_rate = 0 THEN @ \ {"hourly_rate"} ELSE @]]

\* yaml.Marshal(pr)
Marshal(projects) == [i \in 1 .. Len(projects) |-> marshalProject(projects[i])]

\* yaml.Unmarshal(data, &registry): a key the document lacks leaves the
\* field at its zero value (nil rate, "").
Unmarshal(doc) ==
  [i \in 1 .. Len(doc) |->
     [name |-> doc[i].name,
      hourly_rate |-> IF "hourly_rate" \in doc[i].keys THEN doc[i].hourly_rate ELSE NoRate,
      description |-> IF "description" \in doc[i].keys THEN doc[i].description ELSE "",
      export_path |-> IF "export_path" \in doc[i].keys THEN doc[i].export_path ELSE ""]]

\* LoadProjects: [err, projects]
LoadProjects(files, devMode) ==
  LET projectsPath == GetProjectsPath(devMode)
      f == files[projectsPath.dir]
  IN IF ~f.exists THEN [err |-> "", projects |-> <<>>]
     ELSE IF f.malformed THEN [err |-> "failed to parse projects registry", projects |-> <<>>]
     ELSE [err |-> "", projects |-> Unmarshal(f.doc)]

\* What a failed os.WriteFile may leave at the path.
Torn(f) == {f, [exists |-> TRUE, malformed |-> FALSE, doc |-> <<>>],
            [exists |-> TRUE, malformed |-> TRUE, doc |-> <<>>]}

\* ProjectsRegistry.Save
Save ==
  LET projectsPath == GetProjectsPath(fsys.TMPO_DEV)
      data == Marshal(registry)
  IN \E fail \in {"", "mkdir", "write"} :
       /\ CASE fail = "" ->
                 /\ fsys' = [fsys EXCEPT !.projectsYaml[projectsPath.dir] =
                                     [exists |-> TRUE, malformed |-> FALSE, doc |-> data]]
                 /\ lastOp' = Outcome("Save", "")
            [] fail = "mkdir" ->
                 /\ fsys' = fsys
                 /\ lastOp' = Outcome("Save", "failed to create config directory")
            [] fail = "write" ->
                 /\ \E f \in Torn(fsys.projectsYaml[projectsPath.dir]) :
                      fsys' = [fsys EXCEPT !.projectsYaml[projectsPath.dir] = f]
                 /\ lastOp' = Outcome("Save", "failed to write projects registry")
       /\ UNCHANGED <<store, registry, procs>>

\* A call of LoadProjects; the caller keeps the registry it is given.
CallLoadProjects ==
  LET res == LoadProjects(fsys.projectsYaml, fsys.TMPO_DEV)
  IN /\ registry' = IF res.err = "" THEN res.projects ELSE registry
     /\ lastOp' = Outcome("LoadProjects", res.err)
     /\ UNCHANGED <<store, fsys, procs>>

\* Where one invocation of the program looks for its three files.
ResolvePaths ==
  /\ lastOp' = Outcome("ResolvePaths", "")
                 @@ [db |-> dbPath(fsys.TMPO_DEV).dir,
                     config |-> GetGlobalConfigPath(fsys.TMPO_DEV).dir,
                     projects |-> GetProjectsPath(fsys.TMPO_DEV).dir]
  /\ UNCHANGED <<store, cfg>>

\* Values of TMPO_DEV.
DevModes == {"", "0", "1", "true"}

\* Registries held in memory before the first Save.
SavedRegistries ==
  {<<>>} \cup
  {<<[GlobalProject("P", r, x) EXCEPT !.description = d]>> :
     r \in {NoRate, 0, 80}, x \in {"", "/global"}, d \in {"", "text"}} \cup
  {<<GlobalProject("", NoRate, ""), [GlobalProject("Q", r, "") EXCEPT !.description = "text"]>> :
     r \in {NoRate, 0}}

InitFiles ==
  InitCfg(SavedRegistries,
          {[NoFiles EXCEPT !.TMPO_DEV = devMode] : devMode \in DevModes})

NextFiles == Save \/ CallLoadProjects \/ ResolvePaths \/ DeleteProject

SpecFiles == InitFiles /\ [][NextFiles]_vars

\* Values of the --project flag.
Flags == {"", "P", "Q"}

\* (description, hourly rate from the project's configuration) of a start.
StartArgs == {<<"", NoRate>>, <<"d", 50>>}

\* ------------------------------------------------------------------ commands
\* A command is one process: it opens the store with Initialize, runs, exits.
\* CmdExit states the datastore the process leaves behind.
CmdExit(db, seq, clk, outcome) ==
  /\ time_entries' = db.time_entries
  /\ milestones' = db.milestones
  /\ settings' = db.settings
  /\ entrySeq' = seq
  /\ clock' = clk
  /\ lastOp' = outcome
  /\ opened' = FALSE
  /\ UNCHANGED milestoneSeq

CmdOutcome(op, err, r) ==
  [Outcome(op, err) EXCEPT
     !.ran = r.ran, !.queries = r.queries, !.rewritten = r.rewritten]

\* The clock readings available after Initialize read `clk`.
NowsAfter(clk) == {n \in {clk, clk + 1} : n <= MaxClock}

\* Variant of resumeBlocked without the pre-check.
resumeBlocked_never(tbl) == FALSE

\* The pre-check of resume: GetRunningEntry returned a row.
resumeBlocked(tbl) == GetRunningEntry(tbl) # {}

\* Variant of resumeCreate that passes no hourly rate.
resumeCreate_noRate(tbl, id, lastStopped, now) ==
  insertEntry(tbl, id, lastStopped.project_name, lastStopped.description,
              NoRate, lastStopped.milestone_name, now)

\* The CreateEntry call of resume: the new entry copies the stopped one.
resumeCreate(tbl, id, lastStopped, now) ==
  insertEntry(tbl, id, lastStopped.project_name, lastStopped.description,
              lastStopped.hourly_rate, lastStopped.milestone_name, now)

ResumeCmd ==
  /\ ~opened
  /\ UNCHANGED cfg
  /\ \E in \in InitInputs(DB) :
       /\ LET r   == InitializeResult(DB, in[1], in[2], in[3])
              clk == in[3]
          IN
          IF r.err # "" THEN
            CmdExit(r.db, entrySeq, clk, CmdOutcome("resume", r.err, r))
          ELSE IF resumeBlocked(r.db.time_entries) THEN
            CmdExit(r.db, entrySeq, clk, CmdOutcome("resume", "Already tracking time", r))
          ELSE
            \E resumeProjectFlag \in Flags, env \in Envs :
              LET projectName == DetectConfiguredProjectWithOverride(resumeProjectFlag, env)
                  lastStopped == GetLastStoppedEntryByProject(r.db.time_entries, projectName.name)
              IN
              IF projectName.err # "" THEN
                CmdExit(r.db, entrySeq, clk, CmdOutcome("resume", projectName.err, r))
              ELSE IF lastStopped = {} THEN
                CmdExit(r.db, entrySeq, clk, CmdOutcome("resume", "No previous session found", r))
              ELSE
                /\ entrySeq < MaxCmdEntries
                /\ \E l \in lastStopped, now \in NowsAfter(clk) :
                     CmdExit([r.db EXCEPT !.time_entries =
                                resumeCreate(@, entrySeq + 1, r.db.time_entries[l], now)],
                             entrySeq + 1, now, CmdOutcome("resume", "", r))

\* tmpo start: refuses while an entry is running, otherwise inserts a running
\* entry for the detected project with the configured rate and the project's
\* active milestone.
StartCmd ==
  /\ ~opened
  /\ UNCHANGED cfg
  /\ \E in \in InitInputs(DB) :
       /\ LET r   == InitializeResult(DB, in[1], in[2], in[3])
              clk == in[3]
          IN
          IF r.err # "" THEN
            CmdExit(r.db, entrySeq, clk, CmdOutcome("start", r.err, r))
          ELSE IF GetRunningEntry(r.db.time_entries) # {} THEN
            CmdExit(r.db, entrySeq, clk, CmdOutcome("start", "Already tracking time", r))
          ELSE
            \E flag \in Flags, env \in Envs :
              LET projectName == DetectConfiguredProjectWithOverride(flag, env)
                  active == GetActiveMilestoneForProject(r.db.milestones, projectName.name)
              IN
              IF projectName.err # "" THEN
                CmdExit(r.db, entrySeq, clk, CmdOutcome("start", projectName.err, r))
              ELSE
                /\ entrySeq < MaxCmdEntries
                /\ \E now \in NowsAfter(clk), a \in StartArgs,
                      ms \in IF active = {} THEN {NoName}
                             ELSE {r.db.milestones[m].name : m \in active} :
                     CmdExit([r.db EXCEPT !.time_entries =
                                insertEntry(@, entrySeq + 1, projectName.name, a[1], a[2], ms, now)],
                             entrySeq + 1, now, CmdOutcome("start", "", r))

\* tmpo stop and tmpo pause: stop the running entry, fail when there is none.
stopRunning(op) ==
  /\ ~opened
  /\ UNCHANGED cfg
  /\ \E in \in InitInputs(DB) :
       /\ LET r   == InitializeResult(DB, in[1], in[2], in[3])
              clk == in[3]
              running == GetRunningEntry(r.db.time_entries)
          IN
          IF r.err # "" THEN
            CmdExit(r.db, entrySeq, clk, CmdOutcome(op, r.err, r))
          ELSE IF running = {} THEN
            CmdExit(r.db, entrySeq, clk, CmdOutcome(op, "No active time tracking session", r))
          ELSE
            \E id \in running, now \in NowsAfter(clk) :
              CmdExit([r.db EXCEPT !.time_entries = stopEntry(@, id, now)],
                      entrySeq, now, CmdOutcome(op, "", r))

StopCmd == stopRunning("stop")

PauseCmd == stopRunning("pause")

\* The command layer alone: processes run one after another, starting from a
\* datastore with at most one running entry.
NextCmd == StartCmd \/ ResumeCmd \/ PauseCmd \/ StopCmd

SpecCmd == Init /\ [][NextCmd]_vars

\* The life of an entry row: the commands, and the store operations that
\* write the end time of an existing row.
\* It starts from a fresh install or from one legacy entry row, running or
\* completed; the milestones table plays no part in the end time of an entry.
InitLife ==
  InitWith({<<>>, <<EntryRow("P", Stamp(-5, "EST"), NULL, "d", NoRate, NoName)>>,
                  <<EntryRow("P", Stamp(-5, "EST"), Stamp(-4, "EST"), "d", NoRate, NoName)>>},
           {<<>>})

NextLife == NextCmd \/ Initialize \/ Close \/ StopEntry \/ UpdateTimeEntry

SpecLife == InitLife /\ [][NextLife]_vars

\* ------------------------------------------------- commands side by side
\* Two invocations of the program on one datastore, a statement at a time.
\* `overlapped` records that some statement ran while another invocation
\* was between its first and its last statement.
Step(p, pc, last, name) ==
  [overlapped |-> procs.overlapped \/ \E q \in Procs \ {p} : procs.run[q].pc # "idle",
   run |-> [procs.run EXCEPT ![p] = [pc |-> pc, last |-> last, name |-> name]]]

\* The pre-check of milestone start: the project has an active milestone.
milestoneStartBlocked(tbl, projectName) ==
  GetActiveMilestoneForProject(tbl, projectName) # {}

\* resume: running, err := db.GetRunningEntry()
ResumeCheck(p) ==
  /\ procs.run[p].pc = "idle"
  /\ IF resumeBlocked(time_entries)
       THEN /\ procs' = Step(p, "idle", <<>>, "")
            /\ lastOp' = Outcome("resume", "Already tracking time")
       ELSE /\ procs' = Step(p, "checked", <<>>, "")
            /\ lastOp' = Outcome("resume: GetRunningEntry", "")
  /\ UNCHANGED <<store, registry, fsys>>

\* resume: lastStopped, err := db.GetLastStoppedEntryByProject(projectName)
ResumeRead(p) ==
  /\ procs.run[p].pc = "checked"
  /\ LET lastStopped == GetLastStoppedEntryByProject(time_entries, "P")
     IN IF lastStopped = {}
          THEN /\ procs' = Step(p, "idle", <<>>, "")
               /\ lastOp' = Outcome("resume", "No previous session found")
          ELSE \E l \in lastStopped :
                 /\ procs' = Step(p, "read", <<time_entries[l]>>, "")
                 /\ lastOp' = Outcome("resume: GetLastStoppedEntryByProject", "")
  /\ UNCHANGED <<store, registry, fsys>>

\* resume: entry, err := db.CreateEntry(lastStopped...)
ResumeCreate(p) ==
  /\ procs.run[p].pc = "read"
  /\ entrySeq < MaxCmdEntries
  /\ \E now \in Nows :
       /\ time_entries' = resumeCreate(time_entries, nextId(time_entries, entrySeq),
                                       procs.run[p].last[1], now)
       /\ entrySeq' = entrySeq + 1
       /\ clock' = now
  /\ procs' = Step(p, "idle", <<>>, "")
  /\ lastOp' = Outcome("resume", "")
  /\ UNCHANGED <<milestones, settings, milestoneSeq, opened, registry, fsys>>

\* milestone start: the pre-check for an active milestone of the project.
MilestoneStartCheck(p) ==
  /\ procs.run[p].pc = "idle"
  /\ \E n \in MsNames :
       IF milestoneStartBlocked(milestones, "P")
         THEN /\ procs' = Step(p, "idle", <<>>, "")
              /\ lastOp' = Outcome("milestone start", "already has an active milestone")
         ELSE /\ procs' = Step(p, "milestone checked", <<>>, n)
              /\ lastOp' = Outcome("milestone start: GetActiveMilestoneForProject", "")
  /\ UNCHANGED <<store, registry, fsys>>

\* milestone start: db.CreateMilestone(projectName, name)
MilestoneStartCreate(p) ==
  /\ procs.run[p].pc = "milestone checked"
  /\ \E now \in Nows :
       IF uniqueViolation(milestones, "P", procs.run[p].name)
         THEN /\ lastOp' = Outcome("milestone start", "failed to create milestone")
              /\ UNCHANGED <<milestones, milestoneSeq, clock>>
         ELSE /\ milestones' = Insert(milestones, milestoneSeq + 1,
                                      MilestoneRow("P", procs.run[p].name, Stamp(now, "UTC"), NULL))
              /\ milestoneSeq' = milestoneSeq + 1
              /\ clock' = now
              /\ lastOp' = Outcome("milestone start", "")
  /\ procs' = Step(p, "idle", <<>>, "")
  /\ UNCHANGED <<time_entries, settings, entrySeq, opened, registry, fsys>>

\* A migrated datastore holding one stopped entry of project P.
InitRace ==
  /\ time_entries = <<EntryRow("P", Stamp(0, "UTC"), Stamp(1, "UTC"), "d", 50, "m")>>
  /\ milestones = <<>>
  /\ settings = markComplete(<<>>, FirstLaunch)
  /\ entrySeq = 1
  /\ milestoneSeq = 0
  /\ opened = FALSE
  /\ clock = FirstLaunch
  /\ registry = <<>>
  /\ fsys = NoFiles
  /\ procs = NoProcs
  /\ lastOp = Outcome("none", "")

NextRace ==
  \E p \in Procs :
    \/ ResumeCheck(p)
    \/ ResumeRead(p)
    \/ ResumeCreate(p)
    \/ MilestoneStartCheck(p)
    \/ MilestoneStartCreate(p)

SpecRace == InitRace /\ [][NextRace]_vars

\* ===================================================================== claims
MarkerPresent ==
  /\ Migration001_UTCTimestamps \in DOMAIN settings
  /\ settings[Migration001_UTCTimestamps].value = "completed"

StoredUTC(t) == t.zone = "UTC"

RowStoredUTC(row) ==
  StoredUTC(row.start_time) /\ (row.end_time = NULL \/ StoredUTC(row.end_time))

TableStoredUTC(tbl) == \A id \in DOMAIN tbl : RowStoredUTC(tbl[id])

\* The step is a store initialization whose migration ran and committed.
MigrationCommitted == lastOp'.op = "Initialize" /\ lastOp'.err = "" /\ lastOp'.ran

\* Every timestamp of tbl is stored in UTC in tbl2 and denotes the same instant.
NormalisedTo(tbl, tbl2) ==
  /\ DOMAIN tbl2 = DOMAIN tbl
  /\ \A id \in DOMAIN tbl :
       /\ StoredUTC(tbl2[id].start_time)
       /\ Instant(tbl2[id].start_time) = Instant(tbl[id].start_time)
       /\ tbl[id].end_time # NULL =>
            /\ tbl2[id].end_time # NULL
            /\ StoredUTC(tbl2[id].end_time)
            /\ Instant(tbl2[id].end_time) = Instant(tbl[id].end_time)

\* C1: after a successful migration every entry and milestone row has its
\* start and its non-null end stored in UTC, denoting the same instant as
\* before the migration.
C1_MigratedRowsAreUTCSameInstant ==
  [][MigrationCommitted =>
       /\ NormalisedTo(time_entries, time_entries')
       /\ NormalisedTo(milestones, milestones')]_vars

C1_Witness ==
  /\ lastOp.op = "Initialize" /\ lastOp.err = "" /\ lastOp.ran
  /\ lastOp.rewritten = Len(time_entries) + Len(milestones)
  /\ Len(time_entries) > 0 /\ Len(milestones) > 0
  /\ TableStoredUTC(time_entries) /\ TableStoredUTC(milestones)

\* C2: a store initialization that finds the ledger marker changes no stored
\* value and issues no row scan and no row rewrite.
C2_SecondRunIsShortCircuited ==
  [][(lastOp'.op = "Initialize" /\ MarkerPresent) =>
       /\ time_entries' = time_entries
       /\ milestones' = milestones
       /\ settings' = settings
       /\ ~lastOp'.ran /\ lastOp'.queries = 0 /\ lastOp'.rewritten = 0]_vars

C2_Witness ==
  /\ lastOp.op = "Initialize" /\ lastOp.err = "" /\ ~lastOp.ran
  /\ MarkerPresent
  /\ Len(time_entries) > 0

\* C3: the migration is atomic.  A failing initialization leaves the tables
\* and the ledger as they were and returns no store; an initialization that
\* finds no marker and meets no failure runs the migration in full; and the
\* marker is never present next to a timestamp that is not in UTC.
C3_MigrationIsAtomic ==
  /\ [](MarkerPresent => TableStoredUTC(time_entries) /\ TableStoredUTC(milestones))
  /\ [][(lastOp'.op = "Initialize" /\ lastOp'.err # "") =>
          /\ time_entries' = time_entries
          /\ milestones' = milestones
          /\ settings' = settings
          /\ ~opened']_vars
  /\ [][(lastOp'.op = "Initialize" /\ lastOp'.err = "" /\ ~MarkerPresent) =>
          /\ lastOp'.ran /\ lastOp'.queries = 2
          /\ MarkerPresent'
          /\ TableStoredUTC(time_entries') /\ TableStoredUTC(milestones')]_vars

C3_Witness ==
  /\ lastOp.op = "Initialize" /\ lastOp.err = "failed to commit migration transaction"
  /\ lastOp.rewritten > 0
  /\ ~MarkerPresent
  /\ ~TableStoredUTC(time_entries)
  /\ ~opened

\* C4: a null end time is still null after the migration, for entries and
\* for milestones.
C4_NullEndStaysNull ==
  [][lastOp'.op = "Initialize" =>
       /\ \A id \in DOMAIN time_entries :
            time_entries[id].end_time = NULL =>
              id \in DOMAIN time_entries' /\ time_entries'[id].end_time = NULL
       /\ \A id \in DOMAIN milestones :
            milestones[id].end_time = NULL =>
              id \in DOMAIN milestones' /\ milestones'[id].end_time = NULL]_vars

C4_Witness ==
  /\ lastOp.op = "Initialize" /\ lastOp.err = "" /\ lastOp.ran
  /\ lastOp.rewritten = Len(time_entries) + Len(milestones)
  /\ \E id \in DOMAIN time_entries :
       time_entries[id].end_time = NULL /\ StoredUTC(time_entries[id].start_time)
  /\ \E id \in DOMAIN milestones : milestones[id].end_time = NULL

\* Rows of tbl that are not entirely in UTC.
NonUTCRows(tbl) == {id \in DOMAIN tbl : ~RowStoredUTC(tbl[id])}

\* tbl2 has the rows of tbl, with nothing but start_time and end_time changed,
\* and those only in rows that had a non-UTC timestamp.
OnlyNonUTCTimesChanged(tbl, tbl2) ==
  /\ DOMAIN tbl2 = DOMAIN tbl
  /\ \A id \in DOMAIN tbl :
       /\ [tbl2[id] EXCEPT !.start_time = NULL, !.end_time = NULL]
            = [tbl[id] EXCEPT !.start_time = NULL, !.end_time = NULL]
       /\ RowStoredUTC(tbl[id]) => tbl2[id] = tbl[id]

\* C5: the migration changes only start_time and end_time of rows stored with
\* a non-UTC zone; rows already in UTC are not rewritten, and the row count
\* and all other columns stay as they were.
C5_OnlyNonUTCRowsRewritten ==
  [][lastOp'.op = "Initialize" =>
       /\ OnlyNonUTCTimesChanged(time_entries, time_entries')
       /\ OnlyNonUTCTimesChanged(milestones, milestones')
       /\ (lastOp'.err = "" /\ lastOp'.ran) =>
            lastOp'.rewritten = Cardinality(NonUTCRows(time_entries))
                                  + Cardinality(NonUTCRows(milestones))]_vars

C5_Witness ==
  /\ lastOp.op = "Initialize" /\ lastOp.err = "" /\ lastOp.ran
  /\ lastOp.rewritten > 0
  /\ lastOp.rewritten < Len(time_entries) + Len(milestones)

\* C6: while a store returned by Initialize is in use, whatever operations
\* were called on it and whatever zones the callers' timestamps had, every
\* stored start and every stored non-null end is in UTC.
C6_StoredTimesAreUTC ==
  opened => TableStoredUTC(time_entries) /\ TableStoredUTC(milestones)

C6_Witness ==
  /\ opened
  /\ lastOp.op = "CreateManualEntry"
  /\ \E id \in DOMAIN time_entries :
       /\ time_entries[id].start_time = Stamp(1, "UTC")
       /\ time_entries[id].end_time = Stamp(3, "UTC")
  /\ \E id \in DOMAIN milestones : milestones[id].end_time # NULL

\* C7: with commands run one after another from a store with at most one
\* running entry, at most one entry has a null end; a start or resume issued
\* while an entry is running fails and adds no row.
C7_AtMostOneRunning ==
  /\ [](Cardinality(Running(time_entries)) <= 1)
  /\ [][(lastOp'.op \in {"start", "resume"} /\ Running(time_entries) # {}) =>
          /\ lastOp'.err # ""
          /\ DOMAIN time_entries' = DOMAIN time_entries
          /\ Running(time_entries') = Running(time_entries)]_vars

C7_Witness ==
  /\ lastOp.op = "resume" /\ lastOp.err = "Already tracking time"
  /\ Cardinality(Running(time_entries)) = 1
  /\ Cardinality(DOMAIN time_entries) > 1

\* A row that had an end time has none after the step.
Reopened(id) ==
  /\ id \in DOMAIN time_entries /\ id \in DOMAIN time_entries'
  /\ time_entries[id].end_time # NULL
  /\ time_entries'[id].end_time = NULL

\* C8 as claimed: no operation sets the end time of a completed row back to
\* null.
C8_CompletedIsTerminal ==
  [][\A id \in DOMAIN time_entries : ~Reopened(id)]_vars

\* C8 amended: the only operation that sets the end time of a completed row
\* back to null is UpdateTimeEntry (called with an entry that has no end
\* time); StopEntry, the migration, start, resume, pause and stop never do.
C8_OnlyUpdateReopens ==
  [][\A id \in DOMAIN time_entries :
       Reopened(id) => lastOp'.op = "UpdateTimeEntry"]_vars

C8_Witness ==
  /\ lastOp.op = "UpdateTimeEntry" /\ lastOp.reopened
  /\ Running(time_entries) # {}

\* The step is a resume that reported success.
ResumeSucceeded == lastOp'.op = "resume" /\ lastOp'.err = ""

\* The stopped entries of a project that started last.
MostRecentStopped(tbl, projectName) ==
  LET stopped == {id \in DOMAIN tbl :
                    tbl[id].end_time # NULL /\ tbl[id].project_name = projectName}
  IN {id \in stopped :
        \A j \in stopped : Instant(tbl[j].start_time) <= Instant(tbl[id].start_time)}

\* Exactly one row was added; it is running and carries the project,
\* description, rate and milestone of a most recent stopped entry.
ResumedFromLastStopped ==
  \E new \in (DOMAIN time_entries') \ (DOMAIN time_entries) :
    /\ DOMAIN time_entries' = (DOMAIN time_entries) \cup {new}
    /\ time_entries'[new].end_time = NULL
    /\ \E l \in MostRecentStopped(time_entries, time_entries'[new].project_name) :
         /\ time_entries'[new].description = time_entries[l].description
         /\ time_entries'[new].hourly_rate = time_entries[l].hourly_rate
         /\ time_entries'[new].milestone_name = time_entries[l].milestone_name

\* tbl2 holds every row of tbl as the store initialization of the command
\* leaves it: untouched when the ledger marker was there, otherwise with its
\* timestamps normalised to UTC (same instants) and nothing else changed.
KeptUpToNormalisation(tbl, tbl2) ==
  \A id \in DOMAIN tbl :
    /\ id \in DOMAIN tbl2
    /\ IF MarkerPresent
         THEN tbl2[id] = tbl[id]
         ELSE /\ [tbl2[id] EXCEPT !.start_time = NULL, !.end_time = NULL]
                   = [tbl[id] EXCEPT !.start_time = NULL, !.end_time = NULL]
              /\ StoredUTC(tbl2[id].start_time)
              /\ Instant(tbl2[id].start_time) = Instant(tbl[id].start_time)
              /\ (tbl[id].end_time = NULL) = (tbl2[id].end_time = NULL)
              /\ tbl[id].end_time # NULL =>
                   /\ StoredUTC(tbl2[id].end_time)
                   /\ Instant(tbl2[id].end_time) = Instant(tbl[id].end_time)

\* C9 as claimed: a successful resume adds one running entry copied from the
\* most recent stopped entry of the project and leaves every existing row
\* exactly as it was.
C9_ResumeCopiesAndKeepsRows ==
  [][ResumeSucceeded =>
       /\ ResumedFromLastStopped
       /\ \A id \in DOMAIN time_entries : time_entries'[id] = time_entries[id]
       /\ milestones' = milestones]_vars

\* C9 amended: a successful resume adds one running entry copied from the
\* most recent stopped entry of the project and never reopens a row; the
\* existing rows are unchanged except for the UTC normalisation that the
\* command's store initialization performs when the ledger marker is absent.
C9_ResumeCopiesAndKeepsRowsUpToMigration ==
  [][ResumeSucceeded =>
       /\ ResumedFromLastStopped
       /\ KeptUpToNormalisation(time_entries, time_entries')
       /\ KeptUpToNormalisation(milestones, milestones')
       /\ DOMAIN milestones' = DOMAIN milestones]_vars

C9_Witness ==
  /\ lastOp.op = "resume" /\ lastOp.err = ""
  /\ \E new \in DOMAIN time_entries, old \in DOMAIN time_entries :
       /\ time_entries[new].end_time = NULL
       /\ time_entries[new].hourly_rate = 50
       /\ time_entries[old].end_time # NULL
       /\ time_entries[old].project_name = time_entries[new].project_name
       /\ time_entries[old].hourly_rate = NoRate

\* The failures resume reports for a business rule.
ResumeRuleErrors ==
  {"Already tracking time", "not found in global registry", "No previous session found"}

ResumeRefused == lastOp'.op = "resume" /\ lastOp'.err \in ResumeRuleErrors

\* C10 as claimed: a resume refused for a business rule leaves time_entries
\* and milestones exactly as before the command.
C10_RefusedResumeChangesNothing ==
  [][ResumeRefused =>
       /\ time_entries' = time_entries
       /\ milestones' = milestones]_vars

\* C10 amended: a resume refused for a business rule adds, removes and
\* reopens no row; the tables are as before the command except for the UTC
\* normalisation that the command's store initialization performs when the
\* ledger marker is absent.
C10_RefusedResumeChangesNothingUpToMigration ==
  [][ResumeRefused =>
       /\ DOMAIN time_entries' = DOMAIN time_entries
       /\ DOMAIN milestones' = DOMAIN milestones
       /\ entrySeq' = entrySeq
       /\ KeptUpToNormalisation(time_entries, time_entries')
       /\ KeptUpToNormalisation(milestones, milestones')]_vars

C10_Witness ==
  /\ lastOp.op = "resume" /\ lastOp.err = "No previous session found"
  /\ ~lastOp.ran
  /\ \E id \in DOMAIN time_entries : time_entries[id].end_time # NULL

\* The single-row lookups of the store.
SingleRowLookups ==
  {"GetRunningEntry", "GetLastStoppedEntry", "GetEntry", "GetMilestone",
   "GetActiveMilestoneForProject", "GetMilestoneByName"}

\* C11 as claimed: a single-row lookup that matches no row returns a nil
\* value and a nil error.
C11_NoRowIsAbsentNotError ==
  (lastOp.op \in SingleRowLookups /\ ~lastOp.matched) =>
    (lastOp.err = "" /\ lastOp.id = 0)

\* No two rows of tbl have the same (project_name, name).
UniquePairs(tbl) ==
  \A i, j \in DOMAIN tbl :
    (tbl[i].project_name = tbl[j].project_name /\ tbl[i].name = tbl[j].name) => i = j

\* C12: no two milestone rows ever share a (project, name) pair; a
\* CreateMilestone that succeeds added a row whose pair no row had, and one
\* that fails (the pair exists, active or finished) changed no row.
C12_MilestonePairsUnique ==
  /\ [](UniquePairs(milestones))
  /\ [][lastOp'.op = "CreateMilestone" =>
          IF lastOp'.err # ""
            THEN milestones' = milestones /\ milestoneSeq' = milestoneSeq
            ELSE \E new \in (DOMAIN milestones') \ (DOMAIN milestones) :
                   /\ DOMAIN milestones' = (DOMAIN milestones) \cup {new}
                   /\ \A i \in DOMAIN milestones :
                        /\ milestones'[i] = milestones[i]
                        /\ ~(/\ milestones[i].project_name = milestones'[new].project_name
                             /\ milestones[i].name = milestones'[new].name)]_vars

C12_Witness ==
  /\ lastOp.op = "CreateMilestone" /\ lastOp.err = "failed to create milestone"
  /\ Cardinality(DOMAIN milestones) >= 2
  /\ \A i \in DOMAIN milestones : milestones[i].end_time # NULL

\* The step is a CreateMilestone that returned a milestone.
MilestoneCreated == lastOp'.op = "CreateMilestone" /\ lastOp'.err = ""

\* The step is FinishMilestone(id) on an active milestone.
FinishedActive ==
  /\ lastOp'.op = "FinishMilestone"
  /\ lastOp'.id \in DOMAIN milestones
  /\ milestones[lastOp'.id].end_time = NULL

\* After FinishMilestone on an active milestone, the milestone is listed for
\* its project with an end time, and the project has no active milestone
\* left unless it had another one.
FinishedIsListedNotActive ==
  LET id == lastOp'.id
      p == milestones[id].project_name
  IN /\ id \in GetMilestonesByProject(milestones', p)
     /\ milestones'[id].end_time # NULL
     /\ (\A j \in DOMAIN milestones' :
           (j # id /\ milestones'[j].project_name = p) => milestones'[j].end_time # NULL)
          => GetActiveMilestoneForProject(milestones', p) = {}

\* No step gives a finished milestone a null end again.
FinishedStaysFinished ==
  \A id \in DOMAIN milestones :
    milestones[id].end_time # NULL =>
      id \in DOMAIN milestones' /\ milestones'[id].end_time # NULL

\* C13 as claimed: a created milestone is active and is the one
\* GetActiveMilestoneForProject returns for its project; once finished
\* (the project having no other active milestone) the lookup returns absent
\* and the milestone is listed with an end time; a finished milestone never
\* becomes active again.
C13_MilestoneLifecycle ==
  /\ [][MilestoneCreated =>
          \E new \in (DOMAIN milestones') \ (DOMAIN milestones) :
            /\ milestones'[new].end_time = NULL
            /\ GetActiveMilestoneForProject(milestones', milestones'[new].project_name)
                 = {new}]_vars
  /\ [][FinishedActive => FinishedIsListedNotActive]_vars
  /\ [][FinishedStaysFinished]_vars

\* C13 amended: as claimed, except that the created milestone is the one
\* the lookup returns only if no other active milestone of the project has
\* a start time equal to or later than its own; otherwise the lookup may
\* return that other milestone.
C13_MilestoneLifecycleLatestStart ==
  /\ [][MilestoneCreated =>
          \E new \in (DOMAIN milestones') \ (DOMAIN milestones) :
            LET p == milestones'[new].project_name
                others == {j \in DOMAIN milestones :
                             milestones[j].project_name = p /\ milestones[j].end_time = NULL}
            IN /\ milestones'[new].end_time = NULL
               /\ new \in GetActiveMilestoneForProject(milestones', p)
               /\ (\A j \in others :
                     TextLess(milestones[j].start_time, milestones'[new].start_time))
                    => GetActiveMilestoneForProject(milestones', p) = {new}]_vars
  /\ [][FinishedActive => FinishedIsListedNotActive]_vars
  /\ [][FinishedStaysFinished]_vars

C13_Witness ==
  /\ lastOp.op = "GetActiveMilestoneForProject"
  /\ lastOp.project = "P" /\ lastOp.id = 0 /\ lastOp.err = ""
  /\ \E id \in DOMAIN milestones :
       /\ milestones[id].project_name = "P"
       /\ milestones[id].start_time.wall >= FirstLaunch
       /\ milestones[id].end_time # NULL

\* The registry file loads and holds a project whose name equals the
\* trimmed name case-insensitively: the positions of such projects.
RegistryMatches(name) ==
  IF fsys.registryErr \/ TrimSpace(name) = "" THEN {}
  ELSE {i \in 1 .. Len(registry) : ToLower(registry[i].name) = ToLower(TrimSpace(name))}

Detected == lastOp.op = "DetectConfiguredProjectWithOverride"

\* C14: an explicit project that is not in the registry makes detection
\* fail, with "not found" when the registry could be read; nothing is taken
\* from the .tmporc, git or the directory name.
C14_ExplicitUnknownIsHardError ==
  (Detected /\ lastOp.arg # "" /\ RegistryMatches(lastOp.arg) = {}) =>
    /\ lastOp.err # ""
    /\ lastOp.name = ""
    /\ ~fsys.registryErr => lastOp.err = "not found in global registry"

C14_Witness ==
  /\ Detected /\ lastOp.arg = "Q" /\ lastOp.err = "not found in global registry"
  /\ Len(registry) = 1
  /\ fsys.found /\ fsys.cfgName = "Q" /\ fsys.git = "G"

\* C15: an explicit project that matches a registry project
\* case-insensitively after trimming is returned exactly as given.
C15_ExplicitKnownIsReturnedVerbatim ==
  (Detected /\ lastOp.arg # "" /\ RegistryMatches(lastOp.arg) # {}) =>
    (lastOp.err = "" /\ lastOp.name = lastOp.arg)

C15_Witness ==
  /\ Detected /\ lastOp.arg = " P" /\ lastOp.name = " P"
  /\ fsys.found /\ fsys.cfgName = "Q" /\ fsys.git = "G"

\* The name the chain .tmporc project name, git repository, working
\* directory gives.
ClaimedChain ==
  IF fsys.found /\ ~fsys.loadErr /\ fsys.cfgName # "" THEN fsys.cfgName
  ELSE IF fsys.git # "" THEN fsys.git
  ELSE fsys.cwd

\* The same chain with the directory of the .tmporc ahead of git.
ChainWithTmporcDir ==
  IF fsys.found /\ ~fsys.loadErr /\ fsys.cfgName # "" THEN fsys.cfgName
  ELSE IF fsys.found THEN fsys.tmporcDir
  ELSE IF fsys.git # "" THEN fsys.git
  ELSE fsys.cwd

\* C16 as claimed: without an explicit project the name is the one the
\* .tmporc declares, else the git repository's, else the working directory's.
C16_ResolutionChain ==
  (Detected /\ lastOp.arg = "") => (lastOp.err = "" /\ lastOp.name = ClaimedChain)

\* C16 amended: without an explicit project the name is the one the .tmporc
\* declares; else, when a .tmporc was found (declaring no name, or not
\* loadable), the base name of the directory holding it; else the git
\* repository's; else the working directory's.
C16_ResolutionChainWithTmporcDir ==
  (Detected /\ lastOp.arg = "") => (lastOp.err = "" /\ lastOp.name = ChainWithTmporcDir)

C16_Witness ==
  /\ Detected /\ lastOp.arg = ""
  /\ fsys.found /\ ~fsys.loadErr /\ fsys.cfgName = "" /\ fsys.git = "G"
  /\ lastOp.name = "D"

Configured == lastOp.op = "GetProjectConfig"

\* The .tmporc was loaded and declares exactly this project name.
LocalDeclares(name) == fsys.found /\ ~fsys.loadErr /\ fsys.cfgName = name

\* C17: when the registry has a project matching the name, GetProjectConfig
\* returns that project's rate and export path, whatever the .tmporc says.
C17_RegistryWins ==
  (Configured /\ RegistryMatches(lastOp.arg) # {}) =>
    /\ lastOp.err = ""
    /\ \E i \in RegistryMatches(lastOp.arg) :
         /\ lastOp.rate = registry[i].hourly_rate
         /\ lastOp.exportPath = registry[i].export_path

C17_Witness ==
  /\ Configured /\ lastOp.arg = "P" /\ lastOp.rate = 80 /\ lastOp.exportPath = "/global"
  /\ LocalDeclares("P") /\ fsys.cfgRate = 50 /\ fsys.cfgExport = "/local"

\* C18: when the registry has no match, GetProjectConfig returns the
\* .tmporc's export path and its rate if positive, provided the .tmporc
\* declares exactly that name; otherwise no rate, no path, and no error.
C18_LocalFallback ==
  (Configured /\ RegistryMatches(lastOp.arg) = {}) =>
    /\ lastOp.err = ""
    /\ IF LocalDeclares(lastOp.arg)
         THEN /\ lastOp.rate = (IF fsys.cfgRate > 0 THEN fsys.cfgRate ELSE NoRate)
              /\ lastOp.exportPath = fsys.cfgExport
         ELSE lastOp.rate = NoRate /\ lastOp.exportPath = ""

C18_Witness ==
  /\ Configured /\ lastOp.arg = "Q" /\ RegistryMatches("Q") = {}
  /\ LocalDeclares("Q") /\ fsys.cfgRate = 0 /\ fsys.cfgExport = "/local"
  /\ lastOp.rate = NoRate /\ lastOp.exportPath = "/local"

RegistryMutations == {"AddProject", "UpdateProject", "DeleteProject"}

\* C19: the registry's project names stay pairwise distinct
\* case-insensitively, and none is empty, under AddProject, UpdateProject and
\* DeleteProject.
C19_RegistryNamesStayDistinct ==
  /\ \A i, j \in 1 .. Len(registry) :
       i # j => ToLower(registry[i].name) # ToLower(registry[j].name)
  /\ \A i \in 1 .. Len(registry) : registry[i].name # ""

\* C20: a registry mutation that fails leaves the project list as it was;
\* an empty or whitespace-only name fails with "cannot be empty", AddProject
\* of a name the registry has case-insensitively with "already exists",
\* UpdateProject and DeleteProject of a name it has not with "not found".
C20_FailedMutationChangesNothing ==
  [][lastOp'.op \in RegistryMutations =>
       /\ lastOp'.err # "" => registry' = registry
       /\ TrimSpace(lastOp'.arg) = "" => lastOp'.err = "project name cannot be empty"
       /\ (lastOp'.op = "AddProject" /\ RegistryMatches(lastOp'.arg) # {})
            => lastOp'.err = "already exists"
       /\ (lastOp'.op # "AddProject" /\ TrimSpace(lastOp'.arg) # ""
             /\ RegistryMatches(lastOp'.arg) = {})
            => lastOp'.err = "not found"]_vars

C20_Witness ==
  /\ lastOp.op = "AddProject" /\ lastOp.arg = " P" /\ lastOp.err = "already exists"
  /\ Len(registry) = 1 /\ registry[1].name = "p"

\* C21: LoadProjects right after a successful Save returns the projects that
\* were saved, in order, with name, hourly rate (absent stays absent),
\* description and export path; LoadProjects with no registry file returns
\* an empty registry, no error, and creates no file.
C21_SaveLoadRoundTrip ==
  [][lastOp'.op = "LoadProjects" =>
       /\ (lastOp.op = "Save" /\ lastOp.err = "")
            => (lastOp'.err = "" /\ registry' = registry)
       /\ ~fsys.projectsYaml[GetProjectsPath(fsys.TMPO_DEV).dir].exists
            => (lastOp'.err = "" /\ registry' = <<>> /\ fsys' = fsys)]_vars

C21_Witness ==
  /\ lastOp.op = "LoadProjects" /\ lastOp.err = ""
  /\ Len(registry) = 2
  /\ registry[1].name = "" /\ registry[1].hourly_rate = NoRate
  /\ registry[2].hourly_rate = 0 /\ registry[2].description = "text"
  /\ fsys.projectsYaml[".tmpo-dev"].exists

\* C22: the datastore, the global config file and the projects registry all
\* resolve under ~/.tmpo-dev when TMPO_DEV is "1" or "true", and all under
\* ~/.tmpo otherwise.
C22_DevToggleMovesAllFiles ==
  lastOp.op = "ResolvePaths" =>
    LET dir == IF fsys.TMPO_DEV \in {"1", "true"} THEN ".tmpo-dev" ELSE ".tmpo"
    IN lastOp.db = dir /\ lastOp.config = dir /\ lastOp.projects = dir

EntryCreations == {"CreateEntry", "CreateManualEntry"}

\* C23: under CreateEntry, CreateManualEntry and DeleteTimeEntry every new
\* entry gets an id greater than every id assigned before (entrySeq, which
\* no operation lowers and no stored id exceeds), so no id is used twice.
C23_EntryIdsNeverReused ==
  /\ [](\A id \in DOMAIN time_entries : id <= entrySeq)
  /\ [][entrySeq' >= entrySeq]_vars
  /\ [][lastOp'.op \in EntryCreations =>
          /\ DOMAIN time_entries \subseteq DOMAIN time_entries'
          /\ Cardinality(DOMAIN time_entries' \ DOMAIN time_entries) = 1
          /\ \A id \in DOMAIN time_entries' \ DOMAIN time_entries : id > entrySeq]_vars

C23_Witness ==
  /\ lastOp.op \in EntryCreations
  /\ entrySeq = 2
  /\ DOMAIN time_entries = {2}

\* C24: DetectConfiguredProjectWithOverride and GetProjectConfig return an
\* error whenever a file they read, projects.yaml or the .tmporc, cannot be
\* parsed.
C24_MalformedFileIsAnError ==
  LET badTmporc == fsys.found /\ fsys.loadErr
  IN /\ (Detected /\ lastOp.arg # "" /\ fsys.registryErr) => lastOp.err # ""
     /\ (Detected /\ lastOp.arg = "" /\ badTmporc) => lastOp.err # ""
     /\ (Configured /\ fsys.registryErr) => lastOp.err # ""
     /\ (Configured /\ RegistryMatches(lastOp.arg) = {} /\ badTmporc) => lastOp.err # ""

ActiveMilestones(projectName) ==
  {id \in DOMAIN milestones :
     milestones[id].project_name = projectName /\ milestones[id].end_time = NULL}

\* C25: as long as no two invocations overlap, resume leaves at most one
\* entry with a null end and milestone start at most one active milestone
\* per project; with the pre-check and the insert of two invocations
\* interleaved, two running entries and two active milestones are reached.
C25_OneRunningOnlyWithoutOverlap ==
  ~procs.overlapped =>
    /\ Cardinality(Running(time_entries)) <= 1
    /\ \A projectName \in Projects : Cardinality(ActiveMilestones(projectName)) <= 1

C25_Witness ==
  /\ procs.overlapped
  /\ Cardinality(Running(time_entries)) = 2
  /\ Cardinality(ActiveMilestones("P")) = 2

Stopped(tbl) == {id \in DOMAIN tbl : tbl[id].end_time # NULL}

\* C26: CreateEntry succeeds and adds a running entry whatever entries are
\* running already, and GetRunningEntry, when entries have a null end,
\* returns one of them that no other exceeds in start time.
C26_StoreAllowsSeveralRunning ==
  /\ [][lastOp'.op = "CreateEntry" =>
          /\ lastOp'.err = ""
          /\ Cardinality(Running(time_entries')) = Cardinality(Running(time_entries)) + 1]_vars
  /\ []((lastOp.op = "GetRunningEntry" /\ Running(time_entries) # {}) =>
          /\ lastOp.err = ""
          /\ lastOp.id \in Running(time_entries)
          /\ \A j \in Running(time_entries) :
               Instant(time_entries[j].start_time) <= Instant(time_entries[lastOp.id].start_time))

C26_Witness ==
  /\ lastOp.op = "GetRunningEntry"
  /\ Cardinality(Running(time_entries)) >= 2
  /\ \E j \in Running(time_entries) :
       Instant(time_entries[j].start_time) < Instant(time_entries[lastOp.id].start_time)

\* C28: GetLastStoppedEntry returns, among the entries with an end time, the
\* one whose end time is the latest, and absent when there is none.
C28_LastStoppedHasLatestEnd ==
  lastOp.op = "GetLastStoppedEntry" =>
    /\ lastOp.err = ""
    /\ IF Stopped(time_entries) = {} THEN lastOp.id = 0
       ELSE /\ lastOp.id \in Stopped(time_entries)
            /\ \A j \in Stopped(time_entries) :
                 Instant(time_entries[j].end_time) <= Instant(time_entries[lastOp.id].end_time)

\* C27: StopEntry(id) succeeds whatever the state of the entry: it writes
\* the current time into the end time of the row with that id, already
\* stopped or not, changes no other row and no other column, and changes
\* nothing when no row has that id.
C27_StopEntryWritesOnlyTheEnd ==
  [][lastOp'.op = "StopEntry" =>
       /\ lastOp'.err = ""
       /\ DOMAIN time_entries' = DOMAIN time_entries
       /\ \A i \in DOMAIN time_entries :
            time_entries'[i] = IF i = lastOp'.id
                                 THEN [time_entries[i] EXCEPT !.end_time = Stamp(clock', "UTC")]
                                 ELSE time_entries[i]
       /\ UNCHANGED <<milestones, settings>>]_vars

C27_Witness ==
  /\ lastOp.op = "StopEntry" /\ lastOp.before = "stopped"
  /\ time_entries[lastOp.id].end_time = Stamp(clock, "UTC")
  /\ \E i \in DOMAIN time_entries : i # lastOp.id /\ time_entries[i].end_time = NULL

\* C29: Initialize on a datastore that was initialized before (marker
\* present, columns there) succeeds unless the engine fails, the duplicate
\* column reports of the ALTER TABLE statements notwithstanding; a schema
\* statement failing for another reason makes it fail and return no store;
\* either way every entry, milestone and ledger row stays as it was.
C29_InitializeIsRepeatable ==
  [][(lastOp'.op = "Initialize" /\ MarkerPresent) =>
       /\ UNCHANGED <<time_entries, milestones, settings, entrySeq, milestoneSeq>>
       /\ lastOp'.fault = "none" => (lastOp'.err = "" /\ opened')
       /\ lastOp'.fault = "schema" => (lastOp'.err # "" /\ ~opened')]_vars

C29_Witness ==
  /\ lastOp.op = "Initialize" /\ lastOp.fault = "none" /\ lastOp.err = "" /\ ~lastOp.ran
  /\ MarkerPresent /\ opened
  /\ Len(time_entries) > 0 /\ Len(milestones) > 0

\* The projects without the one at position i, in order.
Without(projects, i) == SubSeq(projects, 1, i - 1) \o SubSeq(projects, i + 1, Len(projects))

\* C30: a successful UpdateProject(name, p) replaces one project matching the
\* name, in place, by p (under the original name when p has none) and leaves
\* number, order and the other projects alone; a successful DeleteProject
\* removes one matching project and keeps the others in order.
C30_MutationsTouchOnlyTheMatch ==
  [][(lastOp'.op \in {"UpdateProject", "DeleteProject"} /\ lastOp'.err = "") =>
       \E i \in RegistryMatches(lastOp'.arg) :
         IF lastOp'.op = "UpdateProject"
           THEN /\ Len(registry') = Len(registry)
                /\ \A j \in 1 .. Len(registry) : j # i => registry'[j] = registry[j]
                /\ registry'[i] =
                     [lastOp'.given EXCEPT
                        !.name = IF lastOp'.given.name = "" THEN registry[i].name ELSE @]
           ELSE registry' = Without(registry, i)]_vars

C30_Witness ==
  /\ lastOp.op = "UpdateProject" /\ lastOp.err = ""
  /\ lastOp.arg = "p" /\ lastOp.given.name = "" /\ lastOp.given.hourly_rate = 80
  /\ Len(registry) = 2
  /\ registry[2].name = "P" /\ registry[2].hourly_rate = 80 /\ registry[2].export_path = ""
  /\ registry[1].name = "Q"

====
